---- MODULE Spec2Model ----
(***************************************************************************)
(* Model of the SpaceTraders driver: the HTTP client `api` with its retry  *)
(* loop, `configure`, the two waypoint caches and the resolvers that use   *)
(* them, the list endpoints, the actions of ships and contracts with the   *)
(* arrival callbacks, SystemCollection.one and Root.parse.                 *)
(* The repository holds two versions of the program, src/index.ts          *)
(* (the later one) and src/unnamed/part_000; the variable `variant` says   *)
(* which of the two is running and never changes.                          *)
(*                                                                         *)
(* A unit of work (one resolver invocation) runs from its start to its     *)
(* first `await`, and then from one suspension point to the next: the      *)
(* steps are Start<Op>, RecvThrottled (a response that is retried),        *)
(* Recv (a response that ends the api call, followed by the rest of the    *)
(* handler), Wake (the backoff sleep ends and the request is re-issued)    *)
(* and Reset (the caller has taken the result).                            *)
(***************************************************************************)
EXTENDS Integers, Sequences, FiniteSets, TLC

VARIABLES
    variant,          \* "index" (src/index.ts) or "part000" (src/unnamed/part_000)
    stateData,        \* state.data: the stored token, or Undefined
    cachedMarkets,    \* state.cachedMarkets: waypoint -> payload
    cachedJumpGates,  \* state.cachedJumpGates: waypoint -> payload
    proc,             \* the units of work: locals of the handler and of api()
    timers,           \* callbacks scheduled with $invokeAt, not yet fired
    arrived,          \* the `arrived` events emitted so far
    marketTxFetched,  \* history: waypoints for which a market fetch stored transactions
    jumpGateFetched,  \* history: waypoints for which a jump-gate fetch succeeded
    jumpGateTruthy,   \* history: waypoints for which a jump-gate fetch stored a truthy payload
    tokenConfigured   \* history: the token of the last configure, when it took the token path

vars == <<variant, stateData, cachedMarkets, cachedJumpGates, proc, timers,
          arrived, marketTxFetched, jumpGateFetched, jumpGateTruthy,
          tokenConfigured>>

caches == <<cachedMarkets, cachedJumpGates>>

sched == <<timers, arrived>>

globals == <<stateData, cachedMarkets, cachedJumpGates, timers, arrived>>

cacheHistory == <<marketTxFetched, jumpGateFetched, jumpGateTruthy>>

history == <<marketTxFetched, jumpGateFetched, jumpGateTruthy, tokenConfigured>>

-----------------------------------------------------------------------------
(* Bounds of the model. *)

\* The retry counter and the request counter stop counting here (index.ts
\* retries a 429 without limit; the code only compares retry with 5).
RetryCap == 7

\* Largest `total` the remote reports in a list response.
MaxTotal == 3

\* Number of navigations whose arrival callback may be pending or fired.
MaxTimers == 2

\* Longest run of characters after "X1-" in a value given to Root.parse.
MaxBodyLen == 5

\* Longest run of characters after the second dash in such a value.
MaxTailLen == 7

\* The units of work; the specifications below run one unit of work at a time.
Procs == {1, 2}

OneAtATime == {1}

-----------------------------------------------------------------------------
(* Values. *)

Variants == {"index", "part000"}

Undefined == "<undefined>"

\* An absent numeric argument (args.page, args.limit).
NoNum == 0 - 1

\* No entry under the key in a cache object.
Absent == "<absent>"

Waypoints == {"W1", "W2"}

Tokens == {"tokA", "tokB"}

\* JavaScript truthiness of a string-or-undefined value.
Truthy(v) == v # Undefined /\ v # Absent /\ v # ""

Min(a, b) == IF a < b THEN a ELSE b

\* Payloads of GET .../market: no data field, a market without and two with
\* transaction history.
MarketData == {Undefined, "noTx", "txA", "txB"}

\* Payloads of GET .../jump-gate: no data field, an empty object, a gate.
JumpGateData == {Undefined, "emptyObj", "gateA"}

ErrStatuses == {300, 400, 404, 408, 429, 500}

BodyTexts == {"bodyA", "bodyB"}

\* Samples of Math.random(), in thousandths.
RandomSamples == {0, 999}

-----------------------------------------------------------------------------
(* api(): src/index.ts 26-75, src/unnamed/part_000 26-75. *)

\* The retry limit written in the condition of the retry branch.
MaxRetries == 5

\* index.ts line 58: res.status === 429 || (res.status === 408 && retry < 5)
ShouldRetryIndex(status, retry) ==
    status = 429 \/ (status = 408 /\ retry < MaxRetries)

\* part_000 line 58: res.status === 429 && retry < 5
ShouldRetryPart000(status, retry) ==
    status = 429 /\ retry < MaxRetries

ShouldRetry(v, status, retry) ==
    IF v = "index" THEN ShouldRetryIndex(status, retry)
                   ELSE ShouldRetryPart000(status, retry)

\* 1.4 ** retry in thousandths, rounded down at each factor.
RECURSIVE Pow14(_)
Pow14(n) == IF n = 0 THEN 1000 ELSE (Pow14(n - 1) * 14) \div 10

\* index.ts line 60: 0.5 + 1.4 ** retry seconds, in milliseconds.
WaitIndex(retry) == 500 + Pow14(retry)

\* part_000 line 60: Math.random() * 3 + 3 seconds, in milliseconds.
WaitPart000(r) == 3 * r + 3000

Waits(v, retry) ==
    IF v = "index" THEN {WaitIndex(retry)}
                   ELSE {WaitPart000(r) : r \in RandomSamples}

\* Lines 34-44: keys with undefined values are deleted from the query.
CleanQuery(query) == SelectSeq(query, LAMBDA kv : kv[2] # NoNum)

\* BuildRequest without lines 49-51: no Authorization header is ever set.
BuildRequestNoAuth(call, sd) ==
    [method   |-> call.method,
     path     |-> call.path,
     hasQuery |-> call.hasQuery,
     query    |-> CleanQuery(call.query),
     body     |-> call.body,
     auth     |-> Undefined]

\* Lines 45-56: the request sent; auth is the bearer token or Undefined.
BuildRequest(call, sd) ==
    [method   |-> call.method,
     path     |-> call.path,
     hasQuery |-> call.hasQuery,
     query    |-> CleanQuery(call.query),
     body     |-> call.body,
     auth     |-> IF Truthy(sd) THEN sd ELSE Undefined]

NoApi == [kind |-> "none", status |-> 0, text |-> "", data |-> Undefined,
          hasMeta |-> FALSE, total |-> 0]

\* ApiResult without line 68, error["status"] = res.status.
ApiResultNoStatus(resp) ==
    IF resp.status >= 300
    THEN [kind |-> "throw", status |-> 0, text |-> resp.text,
          data |-> Undefined, hasMeta |-> FALSE, total |-> 0]
    ELSE IF resp.status = 204
    THEN [kind |-> "return", status |-> 0, text |-> "", data |-> Undefined,
          hasMeta |-> FALSE, total |-> 0]
    ELSE [kind |-> "return", status |-> 0, text |-> "", data |-> resp.data,
          hasMeta |-> resp.hasMeta, total |-> resp.total]

\* Lines 66-74: the end of an api call on a response that is not retried.
ApiResult(resp) ==
    IF resp.status >= 300
    THEN [kind |-> "throw", status |-> resp.status, text |-> resp.text,
          data |-> Undefined, hasMeta |-> FALSE, total |-> 0]
    ELSE IF resp.status = 204
    THEN [kind |-> "return", status |-> 0, text |-> "", data |-> Undefined,
          hasMeta |-> FALSE, total |-> 0]
    ELSE [kind |-> "return", status |-> 0, text |-> "", data |-> resp.data,
          hasMeta |-> resp.hasMeta, total |-> resp.total]

-----------------------------------------------------------------------------
(* The record of a unit of work. *)

NoArgs == [wp |-> Undefined, hasTraits |-> FALSE, traits |-> <<>>,
           type |-> Undefined, a |-> Undefined, b |-> Undefined,
           c |-> Undefined, page |-> NoNum, limit |-> NoNum,
           fields |-> {}, name |-> "", value |-> <<>>]

NoCall == [method |-> "", path |-> <<>>, hasQuery |-> FALSE, query |-> <<>>,
           body |-> <<>>]

NoReq == [method |-> "", path |-> <<>>, hasQuery |-> FALSE, query |-> <<>>,
          body |-> <<>>, auth |-> Undefined]

NoRes == [status |-> 0, text |-> ""]

NoOut == [kind |-> "none", val |-> Undefined, status |-> 0, text |-> "",
          hasNext |-> FALSE, next |-> NoNum, nextLimit |-> NoNum, refs |-> <<>>]

IdleProc == [pc |-> "idle", op |-> "", args |-> NoArgs, call |-> NoCall,
             retry |-> 0, req |-> NoReq, res |-> NoRes, wait |-> 0,
             nreq |-> 0, api |-> NoApi, out |-> NoOut]

Returned(v) == [NoOut EXCEPT !.kind = "return", !.val = v]

Null == [NoOut EXCEPT !.kind = "null"]

Thrown(status, text) == [NoOut EXCEPT !.kind = "throw", !.status = status, !.text = text]

\* An Error thrown by the handler itself (no status field).
Failed(text) == Thrown(0, text)

\* What the handler hands on when api() ended r: its data, or the error.
Propagate(r) ==
    IF r.kind = "throw" THEN Thrown(r.status, r.text) ELSE Returned(r.data)

\* A call of api(method, path, query, body) at retry count `retry`, up to the
\* await of fetch (lines 33-56).
Issue(pr, call, retry, sd) ==
    [pr EXCEPT !.pc = "fetch", !.call = call, !.retry = retry,
               !.req = BuildRequest(call, sd),
               !.nreq = Min(@ + 1, RetryCap + 1)]

\* The handler ends with `out`; the frames of api() are gone.
Finish(pr, out) ==
    [pr EXCEPT !.pc = "done", !.out = out, !.call = NoCall, !.req = NoReq,
               !.retry = 0, !.nreq = 0, !.wait = 0]

-----------------------------------------------------------------------------
(* The remote: what it may answer to a request of operation op. *)

\* The arrival times of a navigate response (data.nav.route.arrival).
ArrivalTimes == {"T1", "T2"}

DataFor(op) ==
    CASE op = "market"    -> MarketData
      [] op = "jumpGate"  -> JumpGateData
      [] op = "shipyard"  -> {Undefined, "yard"}
      [] op = "configure" -> {Undefined, "tokR"}
      [] op = "navigate"  -> {Undefined, "noArrival"} \cup ArrivalTimes
      [] op = "page"      -> {"items"}
      [] OTHER            -> {Undefined, "data"}

OkResponses(op) ==
    [status : {200}, text : {""}, data : DataFor(op),
     hasMeta : IF op = "page" THEN {TRUE, FALSE} ELSE {FALSE},
     total : IF op = "page" THEN 0..MaxTotal ELSE {0}]
    \cup
    [status : {204}, text : {""}, data : {Undefined}, hasMeta : {FALSE}, total : {0}]

ErrResponses ==
    [status : ErrStatuses, text : BodyTexts, data : {Undefined},
     hasMeta : {FALSE}, total : {0}]

Responses(op) == OkResponses(op) \cup ErrResponses

-----------------------------------------------------------------------------
Init ==
    /\ variant \in Variants
    /\ stateData = Undefined
    /\ cachedMarkets = [w \in Waypoints |-> Absent]
    /\ cachedJumpGates = [w \in Waypoints |-> Absent]
    /\ proc = [p \in Procs |-> IdleProc]
    /\ timers = <<>>
    /\ arrived = <<>>
    /\ marketTxFetched = {}
    /\ jumpGateFetched = {}
    /\ jumpGateTruthy = {}
    /\ tokenConfigured = Undefined

-----------------------------------------------------------------------------
(* Root.agent: a plain call of api(). *)

\* Root.agent: (await api("GET", "my/agent")).data
AgentCall == [method |-> "GET", path |-> <<"my", "agent">>, hasQuery |-> FALSE,
              query |-> <<>>, body |-> <<>>]

StartAgent(p) ==
    /\ proc[p].pc = "idle"
    /\ proc' = [proc EXCEPT ![p] = Issue([@ EXCEPT !.op = "agent"], AgentCall, 0, stateData)]
    /\ UNCHANGED <<variant, globals, history>>

\* The rest of Root.agent after api() ended r.
ContAgent(p, pr, r) ==
    /\ proc' = [proc EXCEPT ![p] = Finish(pr, Propagate(r))]
    /\ UNCHANGED <<globals, history>>

-----------------------------------------------------------------------------
(* configure: src/index.ts 77-92, src/unnamed/part_000 77-85. *)

ConfigTokens == {Undefined, ""} \cup Tokens

\* index.ts 78-91: token, else symbol && faction, else throw.
ConfigureBranchIndex(token, symbol, faction) ==
    IF Truthy(token) THEN "token"
    ELSE IF Truthy(symbol) /\ Truthy(faction) THEN "register"
    ELSE "fail"

\* part_000 78-84: token, else register.
ConfigureBranchPart000(token, symbol, faction) ==
    IF Truthy(token) THEN "token" ELSE "register"

ConfigureBranch(v, token, symbol, faction) ==
    IF v = "index" THEN ConfigureBranchIndex(token, symbol, faction)
                   ELSE ConfigureBranchPart000(token, symbol, faction)

\* api("POST", "register", {}, { symbol, faction, email })
RegisterCall(v, symbol, faction) ==
    [method |-> "POST", path |-> <<"register">>, hasQuery |-> TRUE, query |-> <<>>,
     body |-> IF v = "index" THEN <<symbol, faction, Undefined>> ELSE <<symbol, faction>>]

\* DataAtRegister of a configure that keeps the credential until the
\* registration has succeeded.
DataAtRegisterKept(sd) == sd

\* index.ts 81: delete state.data, before the register request.
DataAtRegister(sd) == Undefined

StartConfigure(p) ==
    /\ proc[p].pc = "idle"
    /\ \E token \in ConfigTokens, symbol \in {Undefined, "CALLSIGN"},
          faction \in {Undefined, "COSMIC"} :
         LET pr == [proc[p] EXCEPT !.op = "configure",
                                   !.args = [NoArgs EXCEPT !.a = token, !.b = symbol, !.c = faction]]
             br == ConfigureBranch(variant, token, symbol, faction)
         IN  CASE br = "token" ->
                    /\ stateData' = token
                    /\ tokenConfigured' = token
                    /\ proc' = [proc EXCEPT ![p] = Finish(pr, Returned(Undefined))]
               [] br = "register" ->
                    /\ stateData' = DataAtRegister(stateData)
                    /\ tokenConfigured' = Undefined
                    /\ proc' = [proc EXCEPT ![p] =
                                  Issue(pr, RegisterCall(variant, symbol, faction), 0,
                                        DataAtRegister(stateData))]
               [] OTHER ->
                    /\ UNCHANGED <<stateData, tokenConfigured>>
                    /\ proc' = [proc EXCEPT ![p] =
                                  Finish(pr, Failed("Must provide token or symbol and faction"))]
    /\ UNCHANGED <<variant, caches, sched, cacheHistory>>

\* configure after the register call: state.data = data, or the error goes on.
ContConfigure(p, pr, r) ==
    /\ IF r.kind = "throw"
       THEN /\ UNCHANGED stateData
            /\ proc' = [proc EXCEPT ![p] = Finish(pr, Thrown(r.status, r.text))]
       ELSE /\ stateData' = r.data
            /\ proc' = [proc EXCEPT ![p] = Finish(pr, Returned(Undefined))]
    /\ UNCHANGED <<caches, sched, history>>

-----------------------------------------------------------------------------
(* Waypoint.shipyard, Waypoint.market, Waypoint.jumpGate:                  *)
(* src/index.ts 614-686, src/unnamed/part_000 549-620.                     *)

TraitLists == {<<>>, <<"SHIPYARD">>, <<"MARKETPLACE">>, <<"OUTPOST", "MARKETPLACE">>}

WaypointTypes == {"JUMP_GATE", "PLANET"}

\* obj.symbol ?? self.$argsAt(root.systems.one.waypoints.one)?.symbol
Coalesce(x, y) == IF x # Undefined THEN x ELSE y

\* index.ts 618, 643: the callback (_, { symbol }) => symbol !== name takes its
\* symbol from the second argument of every(), the index, which has none.
TraitDiffersIndex(elem, idx, name) == Undefined # name

\* part_000 553, 578: ({ symbol }) => symbol !== name
TraitDiffersPart000(elem, idx, name) == elem # name

TraitDiffers(v, elem, idx, name) ==
    IF v = "index" THEN TraitDiffersIndex(elem, idx, name)
                   ELSE TraitDiffersPart000(elem, idx, name)

\* obj?.traits?.every(...): false when there is no trait list.
NoSuchTrait(v, hasTraits, traits, name) ==
    /\ hasTraits
    /\ \A i \in 1..Len(traits) : TraitDiffers(v, traits[i], i - 1, name)

\* state.cachedMarkets[waypoint]?.transactions
HasTransactions(entry) == entry \in {"txA", "txB"}

\* MarketCacheHit with the test of the jump-gate cache: any truthy entry.
MarketCacheHitAnyEntry(entry) == Truthy(entry)

\* MarketCacheHit of a resolver without the cache test of line 639.
MarketCacheHitNever(entry) == FALSE

\* index.ts 639: the market cache is served when the entry has transactions.
MarketCacheHit(entry) == HasTransactions(entry)

\* JumpGateCacheHit as a test for the key: `waypoint in state.cachedJumpGates`.
JumpGateCacheHitKeyPresent(entry) == entry # Absent

\* index.ts 665: the jump-gate cache is served when the entry is truthy.
JumpGateCacheHit(entry) == Truthy(entry)

\* The status the catch block of a sub-resource turns into null.
NotFoundStatus(v, op) ==
    IF op = "jumpGate" /\ v = "index" THEN 400 ELSE 404

SubResourceCall(wp, leaf) ==
    [method |-> "GET", path |-> <<"systems", "S1", "waypoints", wp, leaf>>,
     hasQuery |-> FALSE, query |-> <<>>, body |-> <<>>]

\* Caught with a catch block that turns every error into null.
CaughtEveryError(v, op, r) == Null

\* The catch block: null on the not-found status, else rethrow.
Caught(v, op, r) ==
    IF r.status = NotFoundStatus(v, op) THEN Null ELSE Thrown(r.status, r.text)

\* The waypoint objects a resolver is invoked on.
WaypointInputs ==
    {[wp |-> Coalesce(objSym, selfSym), hasTraits |-> ht, traits |-> tr, type |-> ty] :
        objSym \in Waypoints \cup {Undefined}, selfSym \in Waypoints,
        ht \in BOOLEAN, tr \in TraitLists, ty \in WaypointTypes}

StartShipyard(p) ==
    /\ proc[p].pc = "idle"
    /\ \E o \in WaypointInputs :
         /\ o.type = "PLANET"
         /\ o.hasTraits \/ o.traits = <<>>
         /\ LET pr == [proc[p] EXCEPT !.op = "shipyard",
                          !.args = [NoArgs EXCEPT !.wp = o.wp, !.hasTraits = o.hasTraits,
                                                  !.traits = o.traits]]
            IN  proc' = [proc EXCEPT ![p] =
                    IF NoSuchTrait(variant, o.hasTraits, o.traits, "SHIPYARD")
                    THEN Finish(pr, Null)
                    ELSE Issue(pr, SubResourceCall(o.wp, "shipyard"), 0, stateData)]
    /\ UNCHANGED <<variant, globals, history>>

ContShipyard(p, pr, r) ==
    /\ proc' = [proc EXCEPT ![p] =
                  Finish(pr, IF r.kind = "throw" THEN Caught(variant, "shipyard", r)
                                                 ELSE Returned(r.data))]
    /\ UNCHANGED <<globals, history>>

StartMarket(p) ==
    /\ proc[p].pc = "idle"
    /\ \E o \in WaypointInputs :
         /\ o.type = "PLANET"
         /\ o.hasTraits \/ o.traits = <<>>
         /\ LET pr == [proc[p] EXCEPT !.op = "market",
                          !.args = [NoArgs EXCEPT !.wp = o.wp, !.hasTraits = o.hasTraits,
                                                  !.traits = o.traits]]
            IN  proc' = [proc EXCEPT ![p] =
                    IF MarketCacheHit(cachedMarkets[o.wp])
                    THEN Finish(pr, Returned(cachedMarkets[o.wp]))
                    ELSE IF NoSuchTrait(variant, o.hasTraits, o.traits, "MARKETPLACE")
                    THEN Finish(pr, Null)
                    ELSE Issue(pr, SubResourceCall(o.wp, "market"), 0, stateData)]
    /\ UNCHANGED <<variant, globals, history>>

\* ContMarket with a write that never replaces an entry with transactions.
ContMarketKeepsComplete(p, pr, r) ==
    /\ IF r.kind = "throw"
       THEN /\ proc' = [proc EXCEPT ![p] = Finish(pr, Caught(variant, "market", r))]
            /\ UNCHANGED <<cachedMarkets, marketTxFetched>>
       ELSE /\ cachedMarkets' = IF HasTransactions(cachedMarkets[pr.args.wp])
                                THEN cachedMarkets
                                ELSE [cachedMarkets EXCEPT ![pr.args.wp] = r.data]
            /\ marketTxFetched' = IF HasTransactions(r.data)
                                  THEN marketTxFetched \cup {pr.args.wp}
                                  ELSE marketTxFetched
            /\ proc' = [proc EXCEPT ![p] = Finish(pr, Returned(r.data))]
    /\ UNCHANGED <<stateData, cachedJumpGates, sched, jumpGateFetched, jumpGateTruthy,
                   tokenConfigured>>

\* Waypoint.market after api(): lines 651-657.
ContMarket(p, pr, r) ==
    /\ IF r.kind = "throw"
       THEN /\ proc' = [proc EXCEPT ![p] = Finish(pr, Caught(variant, "market", r))]
            /\ UNCHANGED <<cachedMarkets, marketTxFetched>>
       ELSE /\ cachedMarkets' = [cachedMarkets EXCEPT ![pr.args.wp] = r.data]
            /\ marketTxFetched' = IF HasTransactions(r.data)
                                  THEN marketTxFetched \cup {pr.args.wp}
                                  ELSE marketTxFetched
            /\ proc' = [proc EXCEPT ![p] = Finish(pr, Returned(r.data))]
    /\ UNCHANGED <<stateData, cachedJumpGates, sched, jumpGateFetched, jumpGateTruthy,
                   tokenConfigured>>

StartJumpGate(p) ==
    /\ proc[p].pc = "idle"
    /\ \E o \in WaypointInputs :
         /\ ~o.hasTraits /\ o.traits = <<>>
         /\ LET pr == [proc[p] EXCEPT !.op = "jumpGate",
                          !.args = [NoArgs EXCEPT !.wp = o.wp, !.type = o.type]]
            IN  proc' = [proc EXCEPT ![p] =
                    IF JumpGateCacheHit(cachedJumpGates[o.wp])
                    THEN Finish(pr, Returned(cachedJumpGates[o.wp]))
                    ELSE IF o.type # "JUMP_GATE"
                    THEN Finish(pr, Null)
                    ELSE Issue(pr, SubResourceCall(o.wp, "jump-gate"), 0, stateData)]
    /\ UNCHANGED <<variant, globals, history>>

ContJumpGate(p, pr, r) ==
    /\ IF r.kind = "throw"
       THEN /\ proc' = [proc EXCEPT ![p] = Finish(pr, Caught(variant, "jumpGate", r))]
            /\ UNCHANGED <<cachedJumpGates, jumpGateFetched, jumpGateTruthy>>
       ELSE /\ cachedJumpGates' = [cachedJumpGates EXCEPT ![pr.args.wp] = r.data]
            /\ jumpGateFetched' = jumpGateFetched \cup {pr.args.wp}
            /\ jumpGateTruthy' = IF Truthy(r.data)
                                 THEN jumpGateTruthy \cup {pr.args.wp}
                                 ELSE jumpGateTruthy
            /\ proc' = [proc EXCEPT ![p] = Finish(pr, Returned(r.data))]
    /\ UNCHANGED <<stateData, cachedMarkets, sched, marketTxFetched, tokenConfigured>>

-----------------------------------------------------------------------------
(* The list endpoints: src/index.ts 194-206, 218-230, 263-279, 549-565,    *)
(* 580-597 (the same code in src/unnamed/part_000).                        *)

Lists == {"factions", "contracts", "ships", "systems", "waypoints"}

PageArgs == {NoNum, 1, 2}

ListPath(list) ==
    CASE list = "factions"  -> <<"factions">>
      [] list = "contracts" -> <<"my", "contracts">>
      [] list = "ships"     -> <<"my", "ships">>
      [] list = "systems"   -> <<"systems">>
      [] OTHER              -> <<"systems", "S1", "waypoints">>

\* api("GET", <list>, { page: args.page, limit: args.limit })
PageCall(list, page, limit) ==
    [method |-> "GET", path |-> ListPath(list), hasQuery |-> TRUE,
     query |-> << <<"page", page>>, <<"limit", limit>> >>, body |-> <<>>]

StartPage(p) ==
    /\ proc[p].pc = "idle"
    /\ \E list \in Lists, page \in PageArgs, limit \in PageArgs :
         LET pr == [proc[p] EXCEPT !.op = "page",
                       !.args = [NoArgs EXCEPT !.a = list, !.page = page, !.limit = limit]]
         IN  proc' = [proc EXCEPT ![p] = Issue(pr, PageCall(list, page, limit), 0, stateData)]
    /\ UNCHANGED <<variant, globals, history>>

\* The remote reports the page and the limit it served: those asked for, or
\* its defaults (page 1, limit 10).
MetaPage(args) == IF args.page = NoNum THEN 1 ELSE args.page

MetaLimit(args) == IF args.limit = NoNum THEN 10 ELSE args.limit

\* (args.page ?? 1) + 1
NextPage(args) == (IF args.page = NoNum THEN 1 ELSE args.page) + 1

\* index.ts 269, 555, 587: const hasNext = total > page * limit
HasNext(total, page, limit) == total > page * limit

\* FactionCollection.page and ContractCollection.page build `next` without
\* looking at res.meta.
PageNextUnconditional(list) == list \in {"factions", "contracts"}

PageResult(args, r) ==
    IF PageNextUnconditional(args.a)
    THEN [Returned(r.data) EXCEPT !.hasNext = TRUE, !.next = NextPage(args),
                                  !.nextLimit = args.limit]
    ELSE IF ~r.hasMeta
    THEN Failed("TypeError: res.meta is undefined")
    ELSE IF HasNext(r.total, MetaPage(args), MetaLimit(args))
    THEN [Returned(r.data) EXCEPT !.hasNext = TRUE, !.next = NextPage(args),
                                  !.nextLimit = args.limit]
    ELSE Returned(r.data)

ContPage(p, pr, r) ==
    /\ proc' = [proc EXCEPT ![p] =
                  Finish(pr, IF r.kind = "throw" THEN Thrown(r.status, r.text)
                                                 ELSE PageResult(pr.args, r))]
    /\ UNCHANGED <<globals, history>>

-----------------------------------------------------------------------------
(* Actions with a pair of exclusive arguments: ShipCollection.purchase     *)
(* (index.ts 280-291), Ship.navigate (479-500), Contract.deliver (245-255).*)

\* A reference argument (waypoint, ship): Undefined, or the symbol it holds.
WaypointRefs == {Undefined} \cup Waypoints

WaypointSymbols == {Undefined, "", "W1"}

ShipRefs == {Undefined, "SHIP2"}

ShipSymbols == {Undefined, "", "SHIP1"}

\* BothGiven with the test left out.
BothGivenUnchecked(ref, symbol) == FALSE

\* if (waypoint && waypointSymbol), if (args.shipSymbol && args.ship)
BothGiven(ref, symbol) == Truthy(ref) /\ Truthy(symbol)

\* if (waypoint) waypointSymbol = waypoint.$argsAt(...).symbol
ResolveSymbol(ref, symbol) == IF Truthy(ref) THEN ref ELSE symbol

BothGivenError == "Please provide waypoint or waypointSymbol but not both."

PurchaseCall(symbol) ==
    [method |-> "POST", path |-> <<"my", "ships">>, hasQuery |-> TRUE, query |-> <<>>,
     body |-> <<"SHIP_PROBE", symbol>>]

NavigateCall(symbol) ==
    [method |-> "POST", path |-> <<"my", "ships", "SHIP1", "navigate">>,
     hasQuery |-> TRUE, query |-> <<>>, body |-> <<symbol>>]

\* The body is args itself: the ship reference stays in it.
DeliverCall(ref, symbol) ==
    [method |-> "POST", path |-> <<"my", "contracts", "CONTRACT1", "deliver">>,
     hasQuery |-> TRUE, query |-> <<>>, body |-> <<symbol, ref>>]

StartPurchase(p) ==
    /\ proc[p].pc = "idle"
    /\ \E ref \in WaypointRefs, symbol \in WaypointSymbols :
         LET pr == [proc[p] EXCEPT !.op = "purchase",
                       !.args = [NoArgs EXCEPT !.a = ref, !.b = symbol,
                                               !.c = ResolveSymbol(ref, symbol)]]
         IN  proc' = [proc EXCEPT ![p] =
                 IF BothGiven(ref, symbol)
                 THEN Finish([pr EXCEPT !.args.c = Undefined], Failed(BothGivenError))
                 ELSE Issue(pr, PurchaseCall(ResolveSymbol(ref, symbol)), 0, stateData)]
    /\ UNCHANGED <<variant, globals, history>>

\* Navigations started and not yet answered.
PendingNavigations ==
    Cardinality({q \in Procs : proc[q].op = "navigate" /\ proc[q].pc \in {"fetch", "sleep"}})

StartNavigate(p) ==
    /\ proc[p].pc = "idle"
    /\ Len(timers) + Len(arrived) + PendingNavigations < MaxTimers
    /\ \E ref \in WaypointRefs, symbol \in WaypointSymbols :
         LET pr == [proc[p] EXCEPT !.op = "navigate",
                       !.args = [NoArgs EXCEPT !.a = ref, !.b = symbol,
                                               !.c = ResolveSymbol(ref, symbol)]]
         IN  proc' = [proc EXCEPT ![p] =
                 IF BothGiven(ref, symbol)
                 THEN Finish([pr EXCEPT !.args.c = Undefined], Failed(BothGivenError))
                 ELSE Issue(pr, NavigateCall(ResolveSymbol(ref, symbol)), 0, stateData)]
    /\ UNCHANGED <<variant, globals, history>>

StartDeliver(p) ==
    /\ proc[p].pc = "idle"
    /\ \E ref \in ShipRefs, symbol \in ShipSymbols :
         LET pr == [proc[p] EXCEPT !.op = "deliver",
                       !.args = [NoArgs EXCEPT !.a = ref, !.b = symbol,
                                               !.c = ResolveSymbol(ref, symbol)]]
         IN  proc' = [proc EXCEPT ![p] =
                 IF BothGiven(ref, symbol)
                 THEN Finish([pr EXCEPT !.args.c = Undefined],
                             Failed("Cannot specify both shipSymbol and ship"))
                 ELSE Issue(pr, DeliverCall(ref, ResolveSymbol(ref, symbol)), 0, stateData)]
    /\ UNCHANGED <<variant, globals, history>>

\* purchase, deliver and SystemCollection.one after api(): return res.data.
ContAction(p, pr, r) ==
    /\ proc' = [proc EXCEPT ![p] = Finish(pr, Propagate(r))]
    /\ UNCHANGED <<globals, history>>

\* res.data?.nav?.route?.arrival
Arrival(data) == IF data \in ArrivalTimes THEN data ELSE Undefined

\* self.handleArrival({ waypointSymbol }).$invokeAt(new Date(arrival))
Scheduled(waypointSymbol, arrival) == [waypointSymbol |-> waypointSymbol, at |-> arrival]

\* ContNavigate scheduling a callback for every response that is not an error.
ContNavigateAlwaysSchedules(p, pr, r) ==
    /\ proc' = [proc EXCEPT ![p] = Finish(pr, Propagate(r))]
    /\ timers' = IF r.kind = "return"
                 THEN Append(timers, Scheduled(pr.args.c, Arrival(r.data)))
                 ELSE timers
    /\ UNCHANGED <<stateData, caches, arrived, history>>

\* ContNavigate with one callback per ship: a new one replaces the pending one.
ContNavigateReplaces(p, pr, r) ==
    /\ proc' = [proc EXCEPT ![p] = Finish(pr, Propagate(r))]
    /\ timers' = IF r.kind = "return" /\ Truthy(Arrival(r.data))
                 THEN <<Scheduled(pr.args.c, Arrival(r.data))>>
                 ELSE timers
    /\ UNCHANGED <<stateData, caches, arrived, history>>

\* navigate after api(): lines 495-499.
ContNavigate(p, pr, r) ==
    /\ proc' = [proc EXCEPT ![p] = Finish(pr, Propagate(r))]
    /\ timers' = IF r.kind = "return" /\ Truthy(Arrival(r.data))
                 THEN Append(timers, Scheduled(pr.args.c, Arrival(r.data)))
                 ELSE timers
    /\ UNCHANGED <<stateData, caches, arrived, history>>

\* Ship.handleArrival (index.ts 501-503), invoked by the timer service.
FireArrival ==
    /\ \E i \in 1..Len(timers) :
         /\ arrived' = Append(arrived, timers[i].waypointSymbol)
         /\ timers' = [j \in 1..(Len(timers) - 1) |->
                          IF j < i THEN timers[j] ELSE timers[j + 1]]
    /\ UNCHANGED <<variant, stateData, caches, proc, history>>

-----------------------------------------------------------------------------
(* SystemCollection.one: src/index.ts 542-548, with shouldFetch (18-23).   *)

Systems == {"S1", "S2"}

\* The field names a selection may hold.
SelectableFields == {"symbol", "waypoints", "type", "sectorSymbol"}

\* Line 543: the second argument of shouldFetch.
SimpleFields == {"symbol", "waypoints"}

\* shouldFetch with every field taken for one that needs the fetch.
shouldFetchAnyField(selections, simpleFields) == selections # {}

\* Lines 18-23: some selected field name is not among simpleFields.
shouldFetch(selections, simpleFields) ==
    \E value \in selections : value \notin simpleFields

\* api("GET", `systems/${symbol}`)
SystemCall(symbol) ==
    [method |-> "GET", path |-> <<"systems", symbol>>, hasQuery |-> FALSE,
     query |-> <<>>, body |-> <<>>]

\* SystemCollection.one up to its await; the stub { symbol } is the symbol.
StartSystem(p) ==
    /\ proc[p].pc = "idle"
    /\ \E symbol \in Systems, selections \in SUBSET SelectableFields :
         LET pr == [proc[p] EXCEPT !.op = "system",
                       !.args = [NoArgs EXCEPT !.a = symbol, !.fields = selections]]
         IN  proc' = [proc EXCEPT ![p] =
                 IF ~shouldFetch(selections, SimpleFields)
                 THEN Finish(pr, Returned(symbol))
                 ELSE Issue(pr, SystemCall(symbol), 0, stateData)]
    /\ UNCHANGED <<variant, globals, history>>

-----------------------------------------------------------------------------
(* Root.parse: src/index.ts 95-119, src/unnamed/part_000 88-112.  A string *)
(* is the sequence of its characters.                                      *)

\* A line terminator, the one character `.` does not match.
Newline == "<LF>"

Rep(c, n) == [i \in 1..n |-> c]

ParseNames == {"system", "waypoint", "ship", Undefined}

ParseBodies ==
    {Rep("A", n) : n \in 0..MaxBodyLen} \cup {<<"A", Newline, "A", "A">>, <<"A", "-", "A">>}

ParseTails == {<<>>} \cup {<<"-">> \o Rep("A", n) : n \in 0..MaxTailLen}

ParseValues ==
    {pre \o head \o body \o tail :
        pre \in {<<>>, <<"A">>},
        head \in {<<"X", "1", "-">>, <<"x", "1", "-">>, <<"X", "1", "A">>},
        body \in ParseBodies, tail \in ParseTails}

\* The flag "i" of both patterns.
Upper(c) == IF c = "x" THEN "X" ELSE c

\* `.{n}` matches the n characters of s from position i.
Dots(s, i, n) == i + n - 1 <= Len(s) /\ \A j \in i..(i + n - 1) : s[j] # Newline

\* `X1-` matches at position i.
LiteralX1(s, i) ==
    /\ i + 2 <= Len(s)
    /\ Upper(s[i]) = "X" /\ s[i + 1] = "1" /\ s[i + 2] = "-"

Least(S) == CHOOSE i \in S : \A j \in S : i <= j

\* (X1-.{3,4}) matches at position i.
SystemAt(s, i) == LiteralX1(s, i) /\ Dots(s, i + 3, 3)

\* value.match(new RegExp("(X1-.{3,4})", "i")) is not null.
SystemMatches(s) == \E i \in 1..Len(s) : SystemAt(s, i)

\* Group 1 of the leftmost match, `.{3,4}` taking 4 characters when it can.
SystemGroup(s) ==
    LET i == Least({j \in 1..Len(s) : SystemAt(s, j)})
    IN  SubSeq(s, i, i + (IF Dots(s, i + 3, 4) THEN 6 ELSE 5))

\* ((X1-.{3,4})-.{3,6}) matches at position i with `.{3,4}` taking k.
WaypointWith(s, i, k) ==
    /\ LiteralX1(s, i)
    /\ Dots(s, i + 3, k)
    /\ i + 3 + k <= Len(s)
    /\ s[i + 3 + k] = "-"
    /\ Dots(s, i + 4 + k, 3)

WaypointAt(s, i) == WaypointWith(s, i, 4) \/ WaypointWith(s, i, 3)

\* value.match(new RegExp("((X1-.{3,4})-.{3,6})", "i")) is not null.
WaypointMatches(s) == \E i \in 1..Len(s) : WaypointAt(s, i)

\* Groups 1 and 2 of the leftmost match; both quantifiers are greedy.
WaypointGroups(s) ==
    LET i == Least({j \in 1..Len(s) : WaypointAt(s, j)})
        k == IF WaypointWith(s, i, 4) THEN 4 ELSE 3
        m == CHOOSE n \in 3..6 : Dots(s, i + 4 + k, n) /\ (n = 6 \/ ~Dots(s, i + 4 + k, n + 1))
    IN  [waypoint |-> SubSeq(s, i, i + 3 + k + m), system |-> SubSeq(s, i, i + 2 + k)]

\* root.systems.one({ symbol: system })
SystemRef(system) == [system |-> system, waypoint |-> <<>>]

\* root.systems.one({ symbol: system }).waypoints.one({ symbol: waypoint })
WaypointRef(system, waypoint) == [system |-> system, waypoint |-> waypoint]

ReturnedList(refs) == [NoOut EXCEPT !.kind = "return", !.refs = refs]

\* const [, system] = null
NotIterable == "TypeError: null is not iterable"

\* Root.parse({ name, value }) for a string value.
ParseResult(name, value) ==
    CASE name = "system" ->
           IF ~SystemMatches(value) THEN Failed(NotIterable)
           ELSE IF SystemGroup(value) # <<>>
           THEN ReturnedList(<<SystemRef(SystemGroup(value))>>)
           ELSE ReturnedList(<<>>)
      [] name = "waypoint" ->
           IF ~WaypointMatches(value) THEN Failed(NotIterable)
           ELSE IF WaypointGroups(value).waypoint # <<>> /\ WaypointGroups(value).system # <<>>
           THEN ReturnedList(<<WaypointRef(WaypointGroups(value).system,
                                           WaypointGroups(value).waypoint)>>)
           ELSE ReturnedList(<<>>)
      [] OTHER -> ReturnedList(<<>>)

StartParse(p) ==
    /\ proc[p].pc = "idle"
    /\ \E name \in ParseNames, value \in ParseValues :
         proc' = [proc EXCEPT ![p] =
                    Finish([@ EXCEPT !.op = "parse",
                                     !.args = [NoArgs EXCEPT !.name = name, !.value = value]],
                           ParseResult(name, value))]
    /\ UNCHANGED <<variant, globals, history>>

-----------------------------------------------------------------------------
(* api() after the await of fetch. *)

\* RecvThrottled with a backoff of the whole process: every call waiting for
\* its response is put to sleep with the throttled one.
RecvThrottledAll(p) ==
    /\ proc[p].pc = "fetch"
    /\ \E status \in ErrStatuses, w \in Waits(variant, proc[p].retry) :
         /\ ShouldRetry(variant, status, proc[p].retry)
         /\ proc' = [q \in Procs |->
                       IF proc[q].pc = "fetch"
                       THEN [proc[q] EXCEPT !.pc = "sleep",
                                            !.res = [status |-> status, text |-> ""],
                                            !.wait = w]
                       ELSE proc[q]]
    /\ UNCHANGED <<variant, globals, history>>

\* api() lines 58-62: the response is one that is retried; the call sleeps.
RecvThrottled(p) ==
    /\ proc[p].pc = "fetch"
    /\ \E status \in ErrStatuses, w \in Waits(variant, proc[p].retry) :
         /\ ShouldRetry(variant, status, proc[p].retry)
         /\ proc' = [proc EXCEPT ![p] = [@ EXCEPT !.pc = "sleep",
                                                  !.res = [status |-> status, text |-> ""],
                                                  !.wait = w]]
    /\ UNCHANGED <<variant, globals, history>>

\* Wake of a retry that sends the request of the first attempt again, with
\* the headers built then.
WakeSameRequest(p) ==
    /\ proc[p].pc = "sleep"
    /\ proc' = [proc EXCEPT ![p] = [@ EXCEPT !.pc = "fetch", !.wait = 0,
                                             !.retry = Min(@ + 1, RetryCap),
                                             !.nreq = Min(@ + 1, RetryCap + 1)]]
    /\ UNCHANGED <<variant, globals, history>>

\* api() line 63: the sleep is over, api(method, path, query, body, retry + 1).
Wake(p) ==
    /\ proc[p].pc = "sleep"
    /\ proc' = [proc EXCEPT ![p] =
                  Issue([@ EXCEPT !.wait = 0], @.call, Min(@.retry + 1, RetryCap), stateData)]
    /\ UNCHANGED <<variant, globals, history>>

\* api() lines 66-74 on a response that is not retried, then the handler.
Recv(p) ==
    /\ proc[p].pc = "fetch"
    /\ \E resp \in Responses(proc[p].op) :
         /\ ~ShouldRetry(variant, resp.status, proc[p].retry)
         /\ LET r  == ApiResult(resp)
                pr == [proc[p] EXCEPT !.res = [status |-> resp.status, text |-> resp.text],
                                      !.api = r]
            IN  CASE proc[p].op = "agent"     -> ContAgent(p, pr, r)
                  [] proc[p].op = "configure" -> ContConfigure(p, pr, r)
                  [] proc[p].op = "shipyard"  -> ContShipyard(p, pr, r)
                  [] proc[p].op = "market"    -> ContMarket(p, pr, r)
                  [] proc[p].op = "jumpGate"  -> ContJumpGate(p, pr, r)
                  [] proc[p].op = "page"      -> ContPage(p, pr, r)
                  [] proc[p].op = "navigate"  -> ContNavigate(p, pr, r)
                  [] proc[p].op = "system"    -> ContAction(p, pr, r)
                  [] OTHER                    -> ContAction(p, pr, r)
    /\ UNCHANGED variant

\* The caller has the result; the unit of work is over.
Reset(p) ==
    /\ proc[p].pc = "done"
    /\ proc' = [proc EXCEPT ![p] = IdleProc]
    /\ UNCHANGED <<variant, globals, history>>

\* The steps of api() shared by every operation.
ApiSteps(p) ==
    \/ RecvThrottled(p)
    \/ Recv(p)
    \/ Wake(p)
    \/ Reset(p)

-----------------------------------------------------------------------------
(* Specifications.  Operations act on each other only through the process  *)
(* state they share: configure and api through state.data, the resolvers   *)
(* of a waypoint through the two caches, navigate and handleArrival        *)
(* through the timers.  Each specification below runs one such group.      *)

\* The whole program.
Next ==
    \/ \E p \in OneAtATime :
        \/ StartAgent(p)
        \/ StartConfigure(p)
        \/ StartShipyard(p)
        \/ StartMarket(p)
        \/ StartJumpGate(p)
        \/ StartPage(p)
        \/ StartPurchase(p)
        \/ StartNavigate(p)
        \/ StartDeliver(p)
        \/ StartSystem(p)
        \/ StartParse(p)
        \/ ApiSteps(p)
    \/ FireArrival

Spec == Init /\ [][Next]_vars

\* The HTTP client and the credential.
NextApi ==
    \E p \in OneAtATime :
        \/ StartAgent(p)
        \/ StartConfigure(p)
        \/ RecvThrottled(p)
        \/ Recv(p)
        \/ Wake(p)
        \/ Reset(p)

SpecApi == Init /\ [][NextApi]_vars

\* The sub-resources of a waypoint and their caches.
NextCache ==
    \E p \in OneAtATime :
        \/ StartShipyard(p)
        \/ StartMarket(p)
        \/ StartJumpGate(p)
        \/ RecvThrottled(p)
        \/ Recv(p)
        \/ Wake(p)
        \/ Reset(p)

SpecCache == Init /\ [][NextCache]_vars

\* The list endpoints.
NextLists ==
    \E p \in OneAtATime :
        \/ StartPage(p)
        \/ RecvThrottled(p)
        \/ Recv(p)
        \/ Wake(p)
        \/ Reset(p)

SpecLists == Init /\ [][NextLists]_vars

\* The actions of ships and contracts, and the arrival callbacks; one
\* arrival time is enough here.
NextActions ==
    \/ \E p \in OneAtATime :
        \/ StartPurchase(p)
        \/ StartNavigate(p)
        \/ StartDeliver(p)
        \/ RecvThrottled(p)
        \/ Recv(p) /\ proc'[p].api.data # "T2"
        \/ Wake(p)
        \/ Reset(p)
    \/ FireArrival

SpecActions == Init /\ [][NextActions]_vars

\* The HTTP client under the scheduling the runtime gives: every request in
\* flight gets a response and every backoff sleep ends.
SpecApiFair ==
    /\ SpecApi
    /\ \A p \in OneAtATime : WF_vars(RecvThrottled(p) \/ Recv(p)) /\ WF_vars(Wake(p))

\* Ship.navigate and the arrival callbacks, under the scheduling the timer
\* service gives: a callback that is due is invoked.
NextNavigate ==
    \/ \E p \in OneAtATime :
        \/ StartNavigate(p)
        \/ RecvThrottled(p)
        \/ Recv(p)
        \/ Wake(p)
        \/ Reset(p)
    \/ FireArrival

SpecNavigate == Init /\ [][NextNavigate]_vars /\ WF_vars(FireArrival)

\* The caches of one waypoint with two resolutions in flight at the same
\* time.
NextCacheConcurrent ==
    \E p \in Procs :
        \/ StartMarket(p) /\ proc'[p].args.wp = "W1" /\ ~proc'[p].args.hasTraits
        \/ StartJumpGate(p) /\ proc'[p].args.wp = "W1"
        \/ RecvThrottled(p)
        \/ Recv(p) /\ proc'[p].res.text # "bodyB"
        \/ Wake(p)
        \/ Reset(p)

SpecCacheConcurrent == Init /\ [][NextCacheConcurrent]_vars

\* Root.parse.
NextParse ==
    \E p \in OneAtATime :
        \/ StartParse(p)
        \/ Reset(p)

SpecParse == Init /\ [][NextParse]_vars

\* The identity operation of a system.
NextSystems ==
    \E p \in OneAtATime :
        \/ StartSystem(p)
        \/ RecvThrottled(p)
        \/ Recv(p)
        \/ Wake(p)
        \/ Reset(p)

SpecSystems == Init /\ [][NextSystems]_vars

\* The HTTP client and the credential with two units of work in flight at
\* the same time: both may configure, the second also calls the API.
NextApiConcurrent ==
    \/ \E p \in Procs :
         \/ StartConfigure(p) /\ (Truthy(proc'[p].args.b) <=> Truthy(proc'[p].args.c))
         \/ RecvThrottled(p)
         \/ Recv(p) /\ proc'[p].res.text # "bodyB"
         \/ Wake(p)
         \/ Reset(p)
    \/ StartAgent(2)

SpecApiConcurrent == Init /\ [][NextApiConcurrent]_vars

-----------------------------------------------------------------------------
(* Properties. *)

InFlight(p) == proc[p].pc \in {"fetch", "sleep"}

\* The throttling statuses of a version: 429, and 408 where it is handled.
ThrottlingStatus(v, status) ==
    status = 429 \/ (v = "index" /\ status = 408)

\* The unit of work p starts operation op in this step.
Starts(p, op) == proc[p].pc = "idle" /\ proc'[p].op = op

\* The unit of work p is done and made no request.
DoneWithoutRequest(p) == proc[p].pc = "done" /\ proc[p].api.kind = "none"

\* C1: a single api call issues at most six requests, whatever the remote
\* answers: a response received at retry count 5 or more is never retried.
C1_AtMostSixRequests ==
    \A p \in Procs : proc[p].nreq <= MaxRetries + 1 /\ proc[p].retry <= MaxRetries

\* C2: every api call eventually finishes, when every request gets a response
\* and every backoff sleep ends.
C2_EveryCallEnds ==
    \A p \in OneAtATime : InFlight(p) ~> (proc[p].pc = "done")

\* C3: a response with a status >= 300 that is not a throttling status ends
\* the api call at once: no sleep and no further request follow, and the call
\* throws an error with that status and the text of the response body.
C3_ErrorNotRetried ==
    [][\A p \in Procs :
          (/\ proc[p].pc = "fetch"
           /\ proc'[p].pc # "fetch"
           /\ proc'[p].res.status >= 300
           /\ ~ThrottlingStatus(variant, proc'[p].res.status))
          => /\ proc'[p].pc = "done"
             /\ proc'[p].api.kind = "throw"
             /\ proc'[p].api.status = proc'[p].res.status
             /\ proc'[p].api.text = proc'[p].res.text
             /\ proc[p].nreq = proc[p].retry + 1]_vars

C3_Witness ==
    \E p \in Procs :
        /\ proc[p].pc = "done"
        /\ proc[p].res.status = 500
        /\ proc[p].api.kind = "throw"
        /\ proc[p].api.text = "bodyB"

\* The market resolution of p ended with the cached entry, without a request.
MarketServedFromCache(p) ==
    /\ DoneWithoutRequest(p)
    /\ proc[p].out = Returned(cachedMarkets[proc[p].args.wp])

\* C4 as stated: a market resolution is served from the cache, without a
\* request, if and only if an earlier fetch for the waypoint stored a payload
\* with transactions; in every other case it issues a fetch.
C4_CacheOrFetch ==
    [][\A p \in Procs :
          Starts(p, "market") =>
             IF proc'[p].args.wp \in marketTxFetched
             THEN MarketServedFromCache(p)'
             ELSE proc'[p].pc = "fetch"]_vars

\* C4, amended: a market resolution is served from the cache, without a
\* request, if and only if an earlier fetch for the waypoint stored a payload
\* with transactions; in every other case it issues a fetch, or returns null
\* without a request for a waypoint object that carries a trait list.
C4_CacheOrFetchOrNull ==
    [][\A p \in Procs :
          Starts(p, "market") =>
             IF proc'[p].args.wp \in marketTxFetched
             THEN MarketServedFromCache(p)'
             ELSE \/ proc'[p].pc = "fetch"
                  \/ /\ DoneWithoutRequest(p)'
                     /\ proc'[p].out = Null
                     /\ proc'[p].args.hasTraits]_vars

C4_Witness ==
    \E p \in Procs :
        /\ proc[p].op = "market"
        /\ MarketServedFromCache(p)
        /\ proc[p].args.wp \in marketTxFetched
        /\ cachedMarkets[proc[p].args.wp] = "txB"

JumpGateServedFromCache(p) ==
    /\ DoneWithoutRequest(p)
    /\ proc[p].out = Returned(cachedJumpGates[proc[p].args.wp])

\* C5 as stated: a jump-gate resolution is served from the cache, without a
\* request, if and only if an earlier jump-gate fetch for the waypoint
\* succeeded, whatever its payload.
C5_AnyFetchIsCached ==
    [][\A p \in Procs :
          Starts(p, "jumpGate") =>
             (JumpGateServedFromCache(p)' <=> proc'[p].args.wp \in jumpGateFetched)]_vars

\* C5, amended: a jump-gate resolution is served from the cache, without a
\* request, if and only if an earlier jump-gate fetch for the waypoint
\* succeeded with a truthy payload (an empty object counts, a response
\* without a data field does not).
C5_TruthyFetchIsCached ==
    [][\A p \in Procs :
          Starts(p, "jumpGate") =>
             (JumpGateServedFromCache(p)' <=> proc'[p].args.wp \in jumpGateTruthy)]_vars

C5_Witness ==
    \E p \in Procs :
        /\ proc[p].op = "jumpGate"
        /\ JumpGateServedFromCache(p)
        /\ cachedJumpGates[proc[p].args.wp] = "emptyObj"
        /\ proc[p].args.wp \in jumpGateTruthy

\* C6: for every list endpoint and every page response with meta
\* {total, page, limit}, `next` is null if and only if total <= page * limit,
\* and otherwise refers to page + 1 with the same limit.
C6_NextNullIffLastPage ==
    \A p \in Procs :
        (/\ proc[p].op = "page"
         /\ proc[p].pc = "done"
         /\ proc[p].out.kind = "return"
         /\ proc[p].api.hasMeta)
        => /\ ~proc[p].out.hasNext
                <=> proc[p].api.total <= MetaPage(proc[p].args) * MetaLimit(proc[p].args)
           /\ proc[p].out.hasNext
                => /\ proc[p].out.next = MetaPage(proc[p].args) + 1
                   /\ proc[p].out.nextLimit = proc[p].args.limit

HasTrait(traits, name) == \E i \in 1..Len(traits) : traits[i] = name

\* The waypoint object of p says that the sub-resource of p's resolver cannot
\* exist.
CannotExist(p) ==
    CASE proc[p].op = "shipyard" ->
           proc[p].args.hasTraits /\ ~HasTrait(proc[p].args.traits, "SHIPYARD")
      [] proc[p].op = "market" ->
           proc[p].args.hasTraits /\ ~HasTrait(proc[p].args.traits, "MARKETPLACE")
      [] proc[p].op = "jumpGate" ->
           proc[p].args.type # "JUMP_GATE"
      [] OTHER -> FALSE

SubResources == {"shipyard", "market", "jumpGate"}

\* C7: shipyard, market and jumpGate return null without a request exactly
\* when the waypoint object says that the sub-resource cannot exist; when it
\* can exist and nothing usable is cached, the resolver issues the fetch.
C7_NullExactlyWhenCannotExist ==
    \A p \in Procs :
        (proc[p].op \in SubResources /\ proc[p].pc # "idle")
        => /\ (DoneWithoutRequest(p) /\ proc[p].out = Null) => CannotExist(p)
           /\ (DoneWithoutRequest(p) /\ ~CannotExist(p)) => proc[p].out.kind = "return"
           /\ CannotExist(p) => DoneWithoutRequest(p)

\* The not-found status of the sub-resources: 404, and for the jump-gate 400
\* in index.ts.
NotFound(v, op) == IF v = "index" /\ op = "jumpGate" THEN 400 ELSE 404

\* C8: when the fetch of shipyard, market or jump-gate fails with the
\* not-found status the resolver returns null, when it fails with any other
\* status the error goes to the caller; both caches stay as they were.
C8_NotFoundIsNull ==
    [][\A p \in Procs :
          (/\ proc[p].pc = "fetch"
           /\ proc[p].op \in SubResources
           /\ proc'[p].api.kind = "throw")
          => /\ proc'[p].pc = "done"
             /\ proc'[p].out =
                  IF proc'[p].res.status = NotFound(variant, proc[p].op)
                  THEN Null
                  ELSE Thrown(proc'[p].res.status, proc'[p].res.text)
             /\ cachedMarkets' = cachedMarkets
             /\ cachedJumpGates' = cachedJumpGates]_vars

C8_Witness ==
    \E p \in Procs :
        /\ proc[p].op = "jumpGate"
        /\ proc[p].pc = "done"
        /\ proc[p].api.kind = "throw"
        /\ proc[p].out = Null
        /\ cachedMarkets[proc[p].args.wp] = "noTx"

PairOps == {"purchase", "navigate", "deliver"}

\* The step fails at once: an error, no request, nothing scheduled, no
\* process state changed.
FailsFast(p) ==
    /\ proc'[p].pc = "done"
    /\ proc'[p].out.kind = "throw"
    /\ proc'[p].api.kind = "none"
    /\ proc'[p].req = NoReq
    /\ globals' = globals

\* C9 as stated: purchase, navigate and deliver fail at once when both
\* arguments of the pair are present and non-null.
C9_BothPresentFails ==
    [][\A p \in Procs :
          (/\ proc[p].pc = "idle"
           /\ proc'[p].op \in PairOps
           /\ proc'[p].args.a # Undefined
           /\ proc'[p].args.b # Undefined)
          => FailsFast(p)]_vars

\* C9, amended: purchase, navigate and deliver fail at once when both
\* arguments of the pair are truthy (present, non-null and, for the symbol,
\* not the empty string).
C9_BothTruthyFails ==
    [][\A p \in Procs :
          (/\ proc[p].pc = "idle"
           /\ proc'[p].op \in PairOps
           /\ Truthy(proc'[p].args.a)
           /\ Truthy(proc'[p].args.b))
          => FailsFast(p)]_vars

C9_Witness ==
    \E p \in Procs :
        /\ proc[p].op = "navigate"
        /\ Truthy(proc[p].args.a) /\ Truthy(proc[p].args.b)
        /\ proc[p].pc = "done"
        /\ proc[p].out = Failed(BothGivenError)
        /\ Len(timers) = 1

\* C10: configure without a token and without both registration fields fails
\* at once: no request, and the stored credential stays as it was.
C10_MisconfigurationFails ==
    [][\A p \in Procs :
          (/\ Starts(p, "configure")
           /\ ~Truthy(proc'[p].args.a)
           /\ ~(Truthy(proc'[p].args.b) /\ Truthy(proc'[p].args.c)))
          => /\ proc'[p].pc = "done"
             /\ proc'[p].out.kind = "throw"
             /\ stateData' = stateData]_vars

\* The unit of work p sends a request in this step (a first attempt or a retry).
IssuesRequest(p) == proc[p].pc # "fetch" /\ proc'[p].pc = "fetch"

\* configure of p takes the token path in this step: it ends at once, without
\* a request, and the stored credential is the token.
TokenPath(p) ==
    (Starts(p, "configure") /\ Truthy(proc'[p].args.a))
    => /\ proc'[p].pc = "done"
       /\ proc'[p].out = Returned(Undefined)
       /\ proc'[p].api.kind = "none"
       /\ proc'[p].nreq = 0
       /\ stateData' = proc'[p].args.a

\* A registration stores the credential of its response in this step.
RegistrationCompletes ==
    \E q \in Procs :
        /\ proc[q].op = "configure"
        /\ proc[q].pc = "fetch"
        /\ proc'[q].pc = "done"
        /\ proc'[q].out.kind = "return"

\* C11 as stated: after configure with a token the stored credential is that
\* token, configure made no request (whatever symbol and faction were), and
\* every request issued afterwards carries that token, until configure is
\* called again.
C11_TokenUntilConfigureCalledAgain ==
    [][\A p \in Procs :
          /\ TokenPath(p)
          /\ (Truthy(tokenConfigured) /\ tokenConfigured' = tokenConfigured)
             => /\ stateData' = tokenConfigured
                /\ IssuesRequest(p) => proc'[p].req.auth = tokenConfigured]_vars

\* C11, amended: after configure with a non-empty token the stored credential
\* is that token, configure made no request (whatever symbol and faction
\* were), and every request issued afterwards carries that token, until
\* configure is called again or a registration that was already in flight
\* completes and stores its own credential.
C11_TokenUntilConfigureOrRegistration ==
    [][\A p \in Procs :
          /\ TokenPath(p)
          /\ (/\ Truthy(tokenConfigured)
              /\ tokenConfigured' = tokenConfigured
              /\ stateData = tokenConfigured
              /\ ~RegistrationCompletes)
             => stateData' = tokenConfigured
          /\ (/\ Truthy(tokenConfigured)
              /\ tokenConfigured' = tokenConfigured
              /\ stateData' = tokenConfigured
              /\ IssuesRequest(p))
             => proc'[p].req.auth = tokenConfigured]_vars

\* A token was configured while a registration was in flight, and a later
\* request carries the token.
C11_Witness ==
    /\ tokenConfigured = "tokA"
    /\ stateData = "tokA"
    /\ proc[1].op = "configure" /\ proc[1].pc = "fetch"
    /\ proc[2].op = "agent" /\ proc[2].pc = "fetch"
    /\ proc[2].req.auth = "tokA"

\* SystemCollection.one of p returned the stub { symbol } without a request.
StubReturned(p) ==
    /\ DoneWithoutRequest(p)
    /\ proc[p].out = Returned(proc[p].args.a)

\* SystemCollection.one of p sent GET systems/<symbol>.
SystemFetched(p) ==
    /\ proc[p].pc = "fetch"
    /\ proc[p].req.method = "GET"
    /\ proc[p].req.path = <<"systems", proc[p].args.a>>

\* C12 as stated: SystemCollection.one with a selection of `symbol` alone
\* returns { symbol } without a request; with a selection that holds any field
\* other than `symbol` it sends GET systems/<symbol>.
C12_FetchUnlessOnlySymbol ==
    [][\A p \in Procs :
          Starts(p, "system") =>
             /\ proc'[p].args.fields = {"symbol"} => StubReturned(p)'
             /\ (\E f \in proc'[p].args.fields : f # "symbol") => SystemFetched(p)']_vars

\* C12, amended: SystemCollection.one with a selection that holds no field
\* other than `symbol` and `waypoints` returns { symbol } without a request;
\* with a selection that holds any other field it sends GET systems/<symbol>.
C12_FetchUnlessSimpleFields ==
    [][\A p \in Procs :
          Starts(p, "system") =>
             /\ proc'[p].args.fields \subseteq {"symbol", "waypoints"} => StubReturned(p)'
             /\ (\E f \in proc'[p].args.fields : f \notin {"symbol", "waypoints"})
                => SystemFetched(p)']_vars

C12_Witness ==
    \E p \in Procs :
        /\ proc[p].op = "system"
        /\ proc[p].args.fields = {"symbol"}
        /\ StubReturned(p)
        /\ proc[p].out.val = "S2"

\* C13: Root.parse never throws: for the name "system" and a value that
\* matches the system pattern it returns one system reference, for the name
\* "waypoint" and a value that matches the waypoint pattern one waypoint
\* reference under its system, and for a value that matches neither pattern,
\* or an unknown name, the empty list.
C13_ParseNeverThrows ==
    \A p \in Procs :
        (proc[p].op = "parse" /\ proc[p].pc = "done")
        => LET name  == proc[p].args.name
               value == proc[p].args.value
               refs  == proc[p].out.refs
           IN  /\ proc[p].out.kind = "return"
               /\ (name = "system" /\ SystemMatches(value))
                  => refs = <<SystemRef(SystemGroup(value))>>
               /\ (name = "waypoint" /\ WaypointMatches(value))
                  => refs = <<WaypointRef(WaypointGroups(value).system,
                                          WaypointGroups(value).waypoint)>>
               /\ (\/ name \notin {"system", "waypoint"}
                   \/ (~SystemMatches(value) /\ ~WaypointMatches(value)))
                  => refs = <<>>

\* The sequence t without its i-th element.
Without(t, i) == [j \in 1..(Len(t) - 1) |-> IF j < i THEN t[j] ELSE t[j + 1]]

\* The callback timers[i] is invoked in this step and emits its event.
Fires(i) ==
    /\ timers' = Without(timers, i)
    /\ arrived' = Append(arrived, timers[i].waypointSymbol)

\* C14: a navigate whose request succeeds with an arrival time schedules
\* exactly one handleArrival callback for that time, carrying the waypoint
\* symbol sent in the request (the symbol of the reference when that form was
\* used); a navigate that fails, or whose response has no arrival time,
\* schedules nothing; nothing else schedules or emits; every callback emits
\* exactly one `arrived` event with its symbol, and eventually does so.
C14_ArrivalScheduledAndEmitted ==
    /\ [][\A p \in Procs :
            (proc[p].pc # "done" /\ proc'[p].pc = "done" /\ proc'[p].op = "navigate")
            => /\ arrived' = arrived
               /\ IF proc'[p].out.kind = "return" /\ proc'[p].api.data \in ArrivalTimes
                  THEN /\ timers' = Append(timers, Scheduled(proc[p].req.body[1],
                                                              proc'[p].api.data))
                       /\ proc[p].req.body[1] = IF Truthy(proc[p].args.a)
                                                THEN proc[p].args.a
                                                ELSE proc[p].args.b
                  ELSE timers' = timers]_vars
    /\ [][(\A p \in Procs : ~(proc[p].pc # "done" /\ proc'[p].pc = "done"))
            => \/ timers' = timers /\ arrived' = arrived
               \/ \E i \in 1..Len(timers) : Fires(i)]_vars
    /\ \A n \in 1..MaxTimers :
          (Len(timers) + Len(arrived) >= n) ~> (Len(arrived) >= n)

\* A navigate given a waypoint reference succeeded and its event was emitted.
C14_Witness ==
    \E p \in Procs :
        /\ proc[p].op = "navigate"
        /\ proc[p].pc = "done"
        /\ proc[p].args.a = "W2"
        /\ proc[p].api.data = "T2"
        /\ timers = <<>>
        /\ arrived = <<"W2">>

\* The symbols a navigate request may carry.
SentSymbols == WaypointRefs \cup WaypointSymbols

\* The events emitted so far.
Emitted == {arrived[i] : i \in 1..Len(arrived)}

\* C17: a pending arrival callback is never cancelled or replaced: in every
\* step the pending callbacks all stay, in their order, or one of them fires.
\* When the ship has navigated twice before the first arrival, both callbacks
\* fire: two events are emitted, the one of the first destination included.
C17_CallbacksNeverCancelled ==
    /\ [][\/ /\ Len(timers') >= Len(timers)
              /\ SubSeq(timers', 1, Len(timers)) = timers
              /\ arrived' = arrived
           \/ \E i \in 1..Len(timers) : Fires(i)]_vars
    /\ \A w \in SentSymbols :
          (Len(timers) >= 2 /\ timers[1].waypointSymbol = w)
          ~> (Len(arrived) >= 2 /\ w \in Emitted)

\* Two navigations succeeded before any arrival, and both events were
\* emitted, the one for the first destination after the other.
C17_Witness ==
    /\ timers = <<>>
    /\ arrived = <<"W2", "W1">>
    /\ \E p \in Procs :
          /\ proc[p].op = "navigate"
          /\ proc[p].pc = "done"
          /\ proc[p].out.kind = "return"
          /\ proc[p].args.c = "W2"

\* C15 as stated: once the market cache holds an entry with transaction history for a
\* waypoint, the entry stays complete, and every market resolution of that
\* waypoint that starts afterwards is served from the cache without a
\* request, also when resolutions interleave.
C15_CompleteEntryStays ==
    [][\A w \in Waypoints :
          HasTransactions(cachedMarkets[w])
          => /\ HasTransactions(cachedMarkets'[w])
             /\ \A p \in Procs :
                   (Starts(p, "market") /\ proc'[p].args.wp = w)
                   => MarketServedFromCache(p)']_vars

\* The market fetch of q for waypoint w ends in this step with a payload.
MarketFetchEnds(q, w) ==
    /\ proc[q].op = "market"
    /\ proc[q].args.wp = w
    /\ proc[q].pc = "fetch"
    /\ proc'[q].pc = "done"
    /\ proc'[q].api.kind = "return"

\* C15, amended: while the market cache holds an entry with transaction
\* history for a waypoint, every market resolution of that waypoint that
\* starts is served from the cache without a request; the entry changes only
\* when a market fetch of that waypoint that was already in flight ends, and
\* then becomes the payload of that fetch, with transactions or not.
C15_CompleteEntryStaysUnlessInFlight ==
    [][\A w \in Waypoints :
          HasTransactions(cachedMarkets[w])
          => /\ cachedMarkets'[w] # cachedMarkets[w]
                => \E q \in Procs : /\ MarketFetchEnds(q, w)
                                    /\ cachedMarkets'[w] = proc'[q].api.data
             /\ (\A q \in Procs : ~(proc[q].op = "market" /\ proc[q].args.wp = w
                                     /\ InFlight(q)))
                => cachedMarkets'[w] = cachedMarkets[w]
             /\ \A p \in Procs :
                   (Starts(p, "market") /\ proc'[p].args.wp = w)
                   => MarketServedFromCache(p)']_vars

\* A resolution was served the complete entry while a fetch of the same
\* waypoint, issued before the entry was stored, is in its backoff sleep.
C15_Witness ==
    /\ cachedMarkets["W1"] = "txB"
    /\ proc[1].op = "market" /\ proc[1].args.wp = "W1"
    /\ MarketServedFromCache(1)
    /\ proc[2].op = "market" /\ proc[2].args.wp = "W1"
    /\ proc[2].pc = "sleep"

CachedOps == {"market", "jumpGate"}

\* The cache entry that operation op reads and writes for waypoint w.
Entry(op, w) == IF op = "market" THEN cachedMarkets[w] ELSE cachedJumpGates[w]

\* The entry passes the cache check of op.
PassesCheck(op, entry) ==
    IF op = "market" THEN HasTransactions(entry) ELSE Truthy(entry)

\* The unit of work q has a fetch of op for waypoint w in flight.
Fetching(q, op, w) ==
    proc[q].op = op /\ proc[q].args.wp = w /\ InFlight(q)

\* C16: a market (or jump-gate) resolution that starts while another fetch of
\* the same waypoint is in flight and no usable entry is cached issues its own
\* fetch; every fetch that ends with a payload stores it over whatever the
\* entry holds, and nothing else changes the entry, so after both the entry
\* is the payload processed last; a resolution that starts between the two
\* writes is served the first writer's value when it passes the cache check.
C16_LastWriterWins ==
    [][\A p \in Procs, op \in CachedOps, w \in Waypoints :
          /\ (/\ Starts(p, op) /\ proc'[p].args.wp = w
              /\ \E q \in Procs \ {p} : Fetching(q, op, w))
             => IF PassesCheck(op, Entry(op, w))
                THEN /\ DoneWithoutRequest(p)'
                     /\ proc'[p].out = Returned(Entry(op, w))
                ELSE \/ proc'[p].pc = "fetch"
                     \/ op = "jumpGate" /\ proc'[p].args.type # "JUMP_GATE"
          /\ (/\ proc[p].op = op /\ proc[p].args.wp = w
              /\ proc[p].pc = "fetch" /\ proc'[p].pc = "done"
              /\ proc'[p].api.kind = "return")
             => Entry(op, w)' = proc'[p].api.data
          /\ Entry(op, w)' # Entry(op, w)
             => \E q \in Procs : /\ proc[q].op = op /\ proc[q].args.wp = w
                                 /\ proc[q].pc = "fetch" /\ proc'[q].pc = "done"
                                 /\ proc'[q].api.kind = "return"]_vars

\* Between the two writes: the first jump-gate fetch has stored its payload,
\* the second is still in flight, and a third resolution was served the
\* first writer's value.
C16_Witness ==
    /\ cachedJumpGates["W1"] = "gateA"
    /\ proc[2].op = "jumpGate" /\ proc[2].args.wp = "W1"
    /\ proc[2].pc = "fetch" /\ proc[2].retry = 1
    /\ proc[1].op = "jumpGate" /\ proc[1].args.wp = "W1"
    /\ JumpGateServedFromCache(1)

\* C18: a backoff sleep delays only the call that was throttled: a step of
\* one unit of work leaves the retry count, the delay and the position of
\* every other one as they were, and while one call sleeps another can
\* start, be answered (its request is out) and wake from its own sleep.
C18_BackoffBlocksOnlyItsCall ==
    /\ [][\A p \in Procs : \A q \in Procs \ {p} :
            proc'[p] # proc[p] => proc'[q] = proc[q]]_vars
    /\ [](\A p \in Procs : \A q \in Procs \ {p} :
            proc[p].pc = "sleep"
            => /\ proc[q].pc = "idle" => ENABLED StartConfigure(q)
               /\ proc[q].pc = "fetch" => ENABLED Recv(q)
               /\ proc[q].pc = "sleep" => ENABLED Wake(q)
               /\ proc[q].pc = "done" => ENABLED Reset(q))

\* One call sleeps after its third throttled response while another, started
\* later, has its first request out.
C18_Witness ==
    /\ proc[1].pc = "sleep" /\ proc[1].retry = 2
    /\ proc[2].op = "agent" /\ proc[2].pc = "fetch" /\ proc[2].retry = 0

\* The credential a request carries when state.data is sd.
Bearer(sd) == IF Truthy(sd) THEN sd ELSE Undefined

\* A registration is in flight after this step.
RegistrationInFlight ==
    \E q \in Procs : proc[q].op = "configure" /\ InFlight(q)

\* A configure stores a credential in this step: the token path, or the end
\* of a registration.
ConfigureStores ==
    \/ \E q \in Procs : Starts(q, "configure") /\ proc'[q].pc = "done"
                          /\ proc'[q].out.kind = "return"
    \/ RegistrationCompletes

\* C19 as stated: every attempt, retries included, carries the credential
\* stored when it is issued, and none when none is stored; consequently every
\* request issued while a registration is in flight, the register request
\* included, carries none.
C19_NoHeaderWhileRegistering ==
    [][\A p \in Procs :
          IssuesRequest(p)
          => /\ proc'[p].req.auth = Bearer(stateData')
             /\ RegistrationInFlight' => proc'[p].req.auth = Undefined]_vars

\* C19, amended: every attempt, retries included, carries the credential
\* stored when it is issued, and none when none is stored; consequently the
\* first attempt of a register request carries none, whatever was stored
\* before, and so does every request issued while the registration is in
\* flight, unless another configure has stored a credential since: then the
\* requests, the retries of the register request included, carry that one.
C19_HeaderIsStoredCredential ==
    [][\A p \in Procs :
          /\ IssuesRequest(p) => proc'[p].req.auth = Bearer(stateData')
          /\ (Starts(p, "configure") /\ IssuesRequest(p))
             => stateData' = Undefined /\ proc'[p].req.auth = Undefined
          /\ (RegistrationInFlight /\ stateData = Undefined /\ ~ConfigureStores)
             => stateData' = Undefined]_vars

\* A retry of the register request carries the token that another configure
\* stored while the registration was asleep.
C19_Witness ==
    /\ proc[1].op = "configure"
    /\ proc[1].pc = "fetch"
    /\ proc[1].retry = 1
    /\ proc[1].req.auth = "tokB"
    /\ stateData = "tokB"

\* The registration of p fails in this step: api() throws.
RegistrationFails(p) ==
    /\ proc[p].op = "configure"
    /\ proc[p].pc = "fetch"
    /\ proc'[p].pc = "done"
    /\ proc'[p].api.kind = "throw"

\* C20: configure on the registration path deletes the stored credential
\* before the register request goes out; when the request fails configure
\* throws the error and stores nothing, so the credential deleted at the
\* start is not restored; a credential appears again only when a configure
\* succeeds, and until then every request goes out without one.
C20_RegistrationNotAtomic ==
    [][\A p \in Procs :
          /\ (Starts(p, "configure") /\ IssuesRequest(p))
             => /\ stateData' = Undefined
                /\ proc'[p].req.auth = Undefined
          /\ RegistrationFails(p)
             => /\ proc'[p].out = Thrown(proc'[p].res.status, proc'[p].res.text)
                /\ stateData' = stateData
          /\ (stateData = Undefined /\ stateData' # Undefined) => ConfigureStores
          /\ (stateData' = Undefined /\ IssuesRequest(p))
             => proc'[p].req.auth = Undefined]_vars

\* In index.ts a registration has failed with status 408, its retries
\* exhausted; no credential is stored and the request of a later call is out
\* without one.
C20_Witness ==
    /\ variant = "index"
    /\ proc[1].op = "configure"
    /\ proc[1].pc = "done"
    /\ proc[1].out.kind = "throw"
    /\ proc[1].res.status = 408
    /\ stateData = Undefined
    /\ proc[2].op = "agent"
    /\ proc[2].pc = "fetch"
    /\ proc[2].req.auth = Undefined

====
